---- MODULE Spec2Model ----
(***************************************************************************)
(* LotteryAnalyzer (src/app.py): the store of historical draws, the        *)
(* analyses computed from it and the candidate generator.                  *)
(*                                                                         *)
(* Python values are modelled as follows: a list is a sequence, a set is a *)
(* set, a dict is a record or a function, a Counter is a record            *)
(* [keys, cnt] whose keys sequence is the dict's insertion order.  A float *)
(* quotient a / b is kept as the exact fraction [num |-> a, den |-> b].    *)
(* A method that returns a message string instead of a structure returns   *)
(* [kind |-> "str", value |-> message]; a raise is kind "ValueError".      *)
(***************************************************************************)
EXTENDS Integers, Sequences, FiniteSets, TLC

VARIABLES
    historical_results,  \* self.historical_results
    call,                \* the method being (or last) called, with its arguments
    result,              \* what the last finished call returned or raised
    pc,                  \* position inside predict_next_result ("idle" outside it)
    most_common_regular, \* predict_next_result: most_common_regular
    most_common_hot,     \* predict_next_result: most_common_hot
    avg_range,           \* predict_next_result: avg_range
    ranges_to_pick,      \* predict_next_result: ranges_to_pick
    predictions,         \* predict_next_result: predictions
    candidate_numbers,   \* predict_next_result: candidate_numbers
    nums_left,           \* predict_next_result: iterations left of `for _ in range(nums_needed)`
    range_idx,           \* predict_next_result: range_idx
    attempts             \* predict_next_result: attempts

predict_analysis == <<most_common_regular, most_common_hot, avg_range>>
predict_loop == <<ranges_to_pick, candidate_numbers, nums_left, range_idx, attempts>>
predict_locals == <<predict_analysis, predictions, predict_loop>>

vars == <<historical_results, call, result, pc, predict_locals>>

-----------------------------------------------------------------------------
(* Bounds of the exploration *)

\* longest store explored
MaxStore == 3
\* largest num_predictions passed to predict_next_result
MaxPredictions == 1
\* random.randint outcomes explored besides the least value of each range and
\* max_number: the values 1..RandWidth
RandWidth == 1

-----------------------------------------------------------------------------
(* Program constants *)

max_number == 43
hot_number_max == 16
REGULAR_COUNT == 5
MIN_PATTERN_RESULTS == 2
MIN_CHAOS_RESULTS == 3
MIN_PREDICT_RESULTS == 3
RANGE_WIDTH == 11
RANGE_COUNT == 4
LAST_RANGE == 3
FREQUENT_PICKS == 3
TOP_REGULAR == 10
TOP_HOT == 3
MAX_ATTEMPTS == 10

-----------------------------------------------------------------------------
(* Python built-ins *)

Min(a, b) == IF a < b THEN a ELSE b
Max(a, b) == IF a > b THEN a ELSE b
Abs(a) == IF a < 0 THEN -a ELSE a

Range(s) == {s[i] : i \in DOMAIN s}

RECURSIVE sum(_)
sum(s) == IF s = <<>> THEN 0 ELSE s[1] + sum(Tail(s))

RemoveAt(s, i) == SubSeq(s, 1, i - 1) \o SubSeq(s, i + 1, Len(s))

\* sorted(list): position k holds the element that has fewer than k elements
\* below it and at least k elements not above it
sorted(s) ==
    [k \in 1..Len(s) |->
        CHOOSE v \in Range(s) :
            /\ Cardinality({j \in DOMAIN s : s[j] < v}) < k
            /\ Cardinality({j \in DOMAIN s : s[j] <= v}) >= k]

\* list(a_set): the set's elements in some order (a set's iteration order)
RECURSIVE ListsOf(_)
ListsOf(S) ==
    IF S = {} THEN {<<>>}
    ELSE UNION {{<<x>> \o l : l \in ListsOf(S \ {x})} : x \in S}

\* math.log(d) for an integer d >= 1, in thousandths, rounded down
LogTable ==
    <<0, 693, 1098, 1386, 1609, 1791, 1945, 2079, 2197, 2302, 2397, 2484, 2564,
      2639, 2708, 2772, 2833, 2890, 2944, 2995, 3044, 3091, 3135, 3178, 3218,
      3258, 3295, 3332, 3367, 3401, 3433, 3465, 3496, 3526, 3555, 3583, 3610,
      3637, 3663, 3688, 3713, 3737, 3761>>
math_log(d) == LogTable[d]

\* collections.Counter
EmptyCounter == [keys |-> <<>>, cnt |-> <<>>]

CounterAdd(c, x) ==
    IF \E i \in DOMAIN c.keys : c.keys[i] = x
    THEN LET i == CHOOSE k \in DOMAIN c.keys : c.keys[k] = x
         IN  [c EXCEPT !.cnt[i] = @ + 1]
    ELSE [keys |-> Append(c.keys, x), cnt |-> Append(c.cnt, 1)]

\* Counter.update(iterable)
RECURSIVE CounterUpdate(_, _)
CounterUpdate(c, s) ==
    IF s = <<>> THEN c ELSE CounterUpdate(CounterAdd(c, s[1]), Tail(s))

\* the (key, count) items in decreasing count, equal counts in insertion order
\* (sorted(..., reverse=True) and heapq.nlargest are both stable)
RECURSIVE ByCount(_)
ByCount(c) ==
    IF c.keys = <<>> THEN <<>>
    ELSE LET i == CHOOSE k \in DOMAIN c.keys :
                      /\ \A j \in DOMAIN c.keys : c.cnt[k] >= c.cnt[j]
                      /\ \A j \in 1..(k - 1) : c.cnt[j] < c.cnt[k]
         IN  <<c.keys[i]>> \o
             ByCount([keys |-> RemoveAt(c.keys, i), cnt |-> RemoveAt(c.cnt, i)])

\* the items in decreasing count, equal counts in increasing key
RECURSIVE ByCountThenKey(_)
ByCountThenKey(c) ==
    IF c.keys = <<>> THEN <<>>
    ELSE LET i == CHOOSE k \in DOMAIN c.keys :
                      \A j \in DOMAIN c.keys :
                          \/ c.cnt[k] > c.cnt[j]
                          \/ c.cnt[k] = c.cnt[j] /\ c.keys[k] <= c.keys[j]
         IN  <<c.keys[i]>> \o
             ByCountThenKey([keys |-> RemoveAt(c.keys, i), cnt |-> RemoveAt(c.cnt, i)])

most_common_by_key(c, n) == SubSeq(ByCountThenKey(c), 1, Min(n, Len(c.keys)))

\* [num for num, _ in counter.most_common(n)]
most_common(c, n) == SubSeq(ByCount(c), 1, Min(n, Len(c.keys)))

-----------------------------------------------------------------------------
(* add_result *)

Str(message) == [kind |-> "str", value |-> message]
Raised(message) == [kind |-> "ValueError", value |-> message]
Returned(kind, value) == [kind |-> kind, value |-> value]
NoResult == [kind |-> "pending", value |-> "none"]

\* the message of the ValueError add_result raises, "" when it raises none
ValidationErrorMissingDuplicateCheck(regular_numbers, hot_number) ==
    IF Len(regular_numbers) # REGULAR_COUNT THEN "exactly 5 regular numbers needed"
    ELSE IF \E i \in DOMAIN regular_numbers :
                regular_numbers[i] < 0 \/ regular_numbers[i] > max_number
         THEN "regular numbers must be between 0 and 43"
    ELSE IF hot_number < 1 \/ hot_number > hot_number_max
         THEN "hot number must be between 1 and 16"
    ELSE ""

ValidationError(regular_numbers, hot_number) ==
    IF Len(regular_numbers) # REGULAR_COUNT THEN "exactly 5 regular numbers needed"
    ELSE IF \E i \in DOMAIN regular_numbers :
                regular_numbers[i] < 0 \/ regular_numbers[i] > max_number
         THEN "regular numbers must be between 0 and 43"
    ELSE IF hot_number < 1 \/ hot_number > hot_number_max
         THEN "hot number must be between 1 and 16"
    ELSE IF Cardinality(Range(regular_numbers)) # Len(regular_numbers)
         THEN "regular numbers must not repeat"
    ELSE ""

\* the entry appended on success
StoredUnsorted(regular_numbers, hot_number) ==
    [regular |-> regular_numbers, hot |-> hot_number]

Stored(regular_numbers, hot_number) ==
    [regular |-> sorted(regular_numbers), hot |-> hot_number]

\* the store after add_result(regular_numbers, hot_number)
add_result(hist, regular_numbers, hot_number) ==
    IF ValidationError(regular_numbers, hot_number) # ""
    THEN hist
    ELSE Append(hist, Stored(regular_numbers, hot_number))

-----------------------------------------------------------------------------
(* analyze_frequency *)

RECURSIVE FrequencyFrom(_, _)
FrequencyFrom(freq, hist) ==
    IF hist = <<>> THEN freq
    ELSE FrequencyFrom(
             [regular |-> CounterUpdate(freq.regular, hist[1].regular),
              hot     |-> CounterUpdate(freq.hot, <<hist[1].hot>>)],
             Tail(hist))

analyze_frequency(hist) ==
    FrequencyFrom([regular |-> EmptyCounter, hot |-> EmptyCounter], hist)

-----------------------------------------------------------------------------
(* analyze_patterns *)

\* ranges[min(3, num // 11)] += 1 over the draw's numbers
range_of(num) == Min(LAST_RANGE, num \div RANGE_WIDTH)

ranges_of(regular) ==
    [i \in 1..RANGE_COUNT |->
        Cardinality({k \in DOMAIN regular : range_of(regular[k]) = i - 1})]

has_consecutive(regular) ==
    LET sorted_nums == sorted(regular)
    IN  \E i \in 1..(Len(sorted_nums) - 1) : sorted_nums[i + 1] - sorted_nums[i] = 1

odd_count(regular) == Cardinality({k \in DOMAIN regular : regular[k] % 2 = 1})

patterns_of(hist) ==
    [sum_regular         |-> [k \in DOMAIN hist |-> sum(hist[k].regular)],
     odd_even_ratio      |-> [k \in DOMAIN hist |->
                                 [num |-> odd_count(hist[k].regular), den |-> 5]],
     range_distribution  |-> [k \in DOMAIN hist |-> ranges_of(hist[k].regular)],
     consecutive_numbers |-> [k \in DOMAIN hist |-> has_consecutive(hist[k].regular)],
     hot_correlation     |-> [k \in DOMAIN hist |->
                                 hist[k].hot \in Range(hist[k].regular)]]

analyze_patterns_floor_above(hist) ==
    IF Len(hist) <= MIN_PATTERN_RESULTS
    THEN Str("not enough data to analyse patterns")
    ELSE Returned("dict", patterns_of(hist))

analyze_patterns(hist) ==
    IF Len(hist) < MIN_PATTERN_RESULTS
    THEN Str("not enough data to analyse patterns")
    ELSE Returned("dict", patterns_of(hist))

-----------------------------------------------------------------------------
(* chaos_theory_analysis *)

RECURSIVE total_numbers(_)
total_numbers(hist) ==
    IF hist = <<>> THEN <<>>
    ELSE hist[1].regular \o <<hist[1].hot>> \o total_numbers(Tail(hist))

differences(total) ==
    [i \in 1..(Len(total) - 1) |-> Abs(total[i + 1] - total[i])]

\* math.log(abs(d)) if d != 0 else 0
log_term(d) == IF d # 0 THEN math_log(Abs(d)) ELSE 0

\* sum(...) / len(differences), in thousandths
lyapunov_estimate(diffs) ==
    [num |-> sum([i \in DOMAIN diffs |-> log_term(diffs[i])]), den |-> Len(diffs)]

\* lyapunov_estimate > 0 (the denominator is positive)
is_chaotic_nonneg(estimate) == estimate.num >= 0

is_chaotic(estimate) == estimate.num > 0

chaos_theory_analysis(hist) ==
    IF Len(hist) < MIN_CHAOS_RESULTS
    THEN Str("not enough data for chaos analysis")
    ELSE LET diffs == differences(total_numbers(hist))
         IN  IF diffs = <<>>
             THEN Str("cannot compute differences")
             ELSE Returned("dict",
                      [lyapunov_estimate |-> lyapunov_estimate(diffs),
                       is_chaotic        |-> is_chaotic(lyapunov_estimate(diffs))])

-----------------------------------------------------------------------------
(* enigma_inspired_analysis *)

transformation_first(hist) ==
    [i \in 0..max_number |-> (i + sum(hist[1].regular)) % (max_number + 1)]

transformation(hist) ==
    [i \in 0..max_number |-> (i + sum(hist[Len(hist)].regular)) % (max_number + 1)]

transformed_results(hist) ==
    [k \in DOMAIN hist |->
        [j \in DOMAIN hist[k].regular |-> transformation(hist)[hist[k].regular[j]]]]

enigma_inspired_analysis(hist) ==
    IF hist = <<>>
    THEN Str("no data to analyse")
    ELSE Returned("dict",
             [transformation      |-> transformation(hist),
              transformed_results |-> transformed_results(hist)])

-----------------------------------------------------------------------------
(* The calls explored *)

\* arguments given to add_result: well-formed draws, in the caller's order ...
ValidInputs ==
    <<[regular |-> <<10, 6, 8, 7, 9>>,      hot |-> 10],
      [regular |-> <<13, 9, 11, 10, 12>>,   hot |-> 13],
      [regular |-> <<12, 13, 14, 15, 16>>,  hot |-> 16],
      [regular |-> <<43, 1, 33, 11, 0>>,    hot |-> 16],
      [regular |-> <<0, 1, 11, 33, 43>>,    hot |-> 1],
      [regular |-> <<33, 0, 22, 11, 1>>,    hot |-> 16],
      [regular |-> <<22, 0, 43, 11, 1>>,    hot |-> 1]>>

\* ... and malformed ones
InvalidInputs ==
    {[regular |-> <<1, 2, 3, 4>>,        hot |-> 1],
     [regular |-> <<1, 2, 3, 4, 5, 6>>,  hot |-> 1],
     [regular |-> <<0, 1, 2, 3, 44>>,    hot |-> 1],
     [regular |-> <<-1, 1, 2, 3, 4>>,    hot |-> 1],
     [regular |-> <<1, 2, 3, 4, 5>>,     hot |-> 0],
     [regular |-> <<1, 2, 3, 4, 5>>,     hot |-> 17],
     [regular |-> <<7, 2, 3, 7, 5>>,     hot |-> 16]}

Inputs == Range(ValidInputs) \cup InvalidInputs

Call(op, args) == [op |-> op, args |-> args]
NoArgs == <<>>

Init ==
    /\ historical_results = <<>>
    /\ call = Call("init", NoArgs)
    /\ result = NoResult
    /\ pc = "idle"
    /\ most_common_regular = <<>>
    /\ most_common_hot = <<>>
    /\ avg_range = <<>>
    /\ ranges_to_pick = <<>>
    /\ predictions = <<>>
    /\ candidate_numbers = {}
    /\ nums_left = 0
    /\ range_idx = 0
    /\ attempts = 0

AddResult ==
    /\ pc = "idle"
    /\ Len(historical_results) < MaxStore
    /\ \E in \in Inputs :
        /\ call' = Call("add_result", in)
        /\ historical_results' = add_result(historical_results, in.regular, in.hot)
        /\ result' = IF ValidationError(in.regular, in.hot) # ""
                     THEN Raised(ValidationError(in.regular, in.hot))
                     ELSE Returned("None", "none")
    /\ UNCHANGED <<pc, predict_locals>>

AnalyzeFrequency ==
    /\ pc = "idle"
    /\ call' = Call("analyze_frequency", NoArgs)
    /\ result' = Returned("dict", analyze_frequency(historical_results))
    /\ UNCHANGED <<historical_results, pc, predict_locals>>

AnalyzePatterns ==
    /\ pc = "idle"
    /\ call' = Call("analyze_patterns", NoArgs)
    /\ result' = analyze_patterns(historical_results)
    /\ UNCHANGED <<historical_results, pc, predict_locals>>

ChaosTheoryAnalysis ==
    /\ pc = "idle"
    /\ call' = Call("chaos_theory_analysis", NoArgs)
    /\ result' = chaos_theory_analysis(historical_results)
    /\ UNCHANGED <<historical_results, pc, predict_locals>>

\* the transformation written back into the stored draws
EnigmaInspiredAnalysisInPlace ==
    /\ pc = "idle"
    /\ call' = Call("enigma_inspired_analysis", NoArgs)
    /\ result' = enigma_inspired_analysis(historical_results)
    /\ historical_results' =
           [k \in DOMAIN historical_results |->
               [historical_results[k] EXCEPT
                   !.regular = transformed_results(historical_results)[k]]]
    /\ UNCHANGED <<pc, predict_locals>>

EnigmaInspiredAnalysis ==
    /\ pc = "idle"
    /\ call' = Call("enigma_inspired_analysis", NoArgs)
    /\ result' = enigma_inspired_analysis(historical_results)
    /\ UNCHANGED <<historical_results, pc, predict_locals>>

Next ==
    \/ AddResult
    \/ AnalyzeFrequency
    \/ AnalyzePatterns
    \/ ChaosTheoryAnalysis
    \/ EnigmaInspiredAnalysis

\* the store and the deterministic analyses, over every sequence of appends
Spec == Init /\ [][Next]_vars

-----------------------------------------------------------------------------
(* predict_next_result *)

\* random.randint(lo, hi): the outcomes explored are the values of lo..hi among
\* the least value of each range, max_number and 1..RandWidth
Sampled(v) == v % RANGE_WIDTH = 0 \/ v = max_number \/ v <= RandWidth
randint(lo, hi) == {v \in lo..hi : Sampled(v)}

\* random.choice(seq)
choice(s) == Range(s)

\* avg_range: the component-wise mean of patterns['range_distribution']
avg_range_of(range_distribution) ==
    [i \in 1..RANGE_COUNT |->
        [num |-> sum([k \in DOMAIN range_distribution |-> range_distribution[k][i]]),
         den |-> Len(range_distribution)]]

\* int(avg_range[i] * 2): truncation of a non-negative quotient.  The float
\* product equals 2 * num / den exactly when that is an integer and is
\* otherwise at least 1 / den away from one, so truncating the fraction and
\* truncating the float agree.
int_twice_rounded(f) == (4 * f.num + f.den) \div (2 * f.den)

int_twice(f) == (2 * f.num) \div f.den

Repeat(x, n) == [k \in 1..n |-> x]

\* ranges_to_pick after `for i in range(4): ranges_to_pick.extend([i] * max(1, ...))`
RECURSIVE RangesFrom(_, _)
RangesFrom(avg, i) ==
    IF i >= RANGE_COUNT THEN <<>>
    ELSE Repeat(i, Max(1, int_twice(avg[i + 1]))) \o RangesFrom(avg, i + 1)

ranges_to_pick_of(avg) == RangesFrom(avg, 0)

\* candidate_numbers after the three additions of random.choice(most_common_regular)
FrequentCandidates(common) ==
    IF common = <<>> THEN {{}}
    ELSE {Range(picks) : picks \in [1..FREQUENT_PICKS -> choice(common)]}

min_val(idx) == idx * RANGE_WIDTH
max_val_unclamped(idx) == (idx + 1) * RANGE_WIDTH
max_val(idx) == Min(max_number, (idx + 1) * RANGE_WIDTH - 1)

\* sorted(list(candidate_numbers)[:5])
final_numbers(candidates) ==
    {sorted(SubSeq(l, 1, Min(REGULAR_COUNT, Len(l)))) : l \in ListsOf(candidates)}

\* random.choice(most_common_hot) if most_common_hot else random.randint(1, 16)
hot_numbers(common_hot) ==
    IF common_hot # <<>> THEN choice(common_hot) ELSE randint(1, hot_number_max)

ClearedLocals ==
    /\ most_common_regular' = <<>>
    /\ most_common_hot' = <<>>
    /\ avg_range' = <<>>
    /\ ranges_to_pick' = <<>>
    /\ predictions' = <<>>
    /\ candidate_numbers' = {}
    /\ nums_left' = 0
    /\ range_idx' = 0
    /\ attempts' = 0

\* lines 146-147: fewer than 3 results
PredictInsufficient ==
    /\ pc = "idle"
    /\ Len(historical_results) < MIN_PREDICT_RESULTS
    /\ \E num_predictions \in 0..MaxPredictions :
           call' = Call("predict_next_result", num_predictions)
    /\ result' = Str("at least 3 historical results are needed to predict")
    /\ UNCHANGED <<historical_results, pc, predict_locals>>

\* lines 149-169: the analyses the loop uses
PredictBegin ==
    /\ pc = "idle"
    /\ Len(historical_results) >= MIN_PREDICT_RESULTS
    /\ \E num_predictions \in 0..MaxPredictions :
           call' = Call("predict_next_result", num_predictions)
    /\ result' = NoResult
    /\ LET frequency == analyze_frequency(historical_results)
           patterns  == analyze_patterns(historical_results).value
       IN  /\ most_common_regular' = most_common(frequency.regular, TOP_REGULAR)
           /\ most_common_hot' = most_common(frequency.hot, TOP_HOT)
           /\ avg_range' = avg_range_of(patterns.range_distribution)
    /\ predictions' = <<>>
    /\ pc' = "for_predictions"
    /\ UNCHANGED <<historical_results, predict_loop>>

\* lines 171-184: one more candidate is started
StartCandidate ==
    /\ pc = "for_predictions"
    /\ Len(predictions) < call.args
    /\ \E chosen \in FrequentCandidates(most_common_regular) :
        /\ candidate_numbers' = chosen
        /\ nums_left' = REGULAR_COUNT - Cardinality(chosen)
    /\ ranges_to_pick' = ranges_to_pick_of(avg_range)
    /\ pc' = "for_nums"
    /\ UNCHANGED <<historical_results, call, result, predict_analysis, predictions,
                   range_idx, attempts>>

\* line 219
ReturnPredictions ==
    /\ pc = "for_predictions"
    /\ Len(predictions) >= call.args
    /\ result' = Returned("list", predictions)
    /\ pc' = "idle"
    /\ ClearedLocals
    /\ UNCHANGED <<historical_results, call>>

\* lines 186-195: the head of `for _ in range(nums_needed)`
PickRange ==
    /\ pc = "for_nums"
    /\ IF nums_left > 0 /\ Cardinality(candidate_numbers) < REGULAR_COUNT
       THEN /\ \E idx \in choice(ranges_to_pick) : range_idx' = idx
            /\ attempts' = 0
            /\ nums_left' = nums_left - 1
            /\ pc' = "while_attempts"
       ELSE /\ pc' = "while_short"
            /\ UNCHANGED <<range_idx, attempts, nums_left>>
    /\ UNCHANGED <<historical_results, call, result, predict_analysis, predictions,
                   ranges_to_pick, candidate_numbers>>

\* the iteration without `attempts += 1`
TryNumberUncounted ==
    /\ pc = "while_attempts"
    /\ attempts < MAX_ATTEMPTS
    /\ \E new_num \in randint(min_val(range_idx), max_val(range_idx)) :
           IF new_num \notin candidate_numbers
           THEN /\ candidate_numbers' = candidate_numbers \cup {new_num}
                /\ pc' = "for_nums"
                /\ range_idx' = 0
                /\ attempts' = 0
           ELSE UNCHANGED <<candidate_numbers, pc, range_idx, attempts>>
    /\ UNCHANGED <<historical_results, call, result, predict_analysis, predictions,
                   ranges_to_pick, nums_left>>

\* lines 196-201: one iteration of `while attempts < 10`; new_num is the value
\* drawn.  range_idx and attempts are not read again once the loop is left
\* (line 191 and line 195 assign them first) and are put back to 0 there.
TryNumber ==
    /\ pc = "while_attempts"
    /\ attempts < MAX_ATTEMPTS
    /\ \E new_num \in randint(min_val(range_idx), max_val(range_idx)) :
           IF new_num \notin candidate_numbers
           THEN /\ candidate_numbers' = candidate_numbers \cup {new_num}
                /\ pc' = "for_nums"
                /\ range_idx' = 0
                /\ attempts' = 0
           ELSE /\ attempts' = attempts + 1
                /\ UNCHANGED <<candidate_numbers, pc, range_idx>>
    /\ UNCHANGED <<historical_results, call, result, predict_analysis, predictions,
                   ranges_to_pick, nums_left>>

\* line 196: the loop ends with attempts at 10
GiveUp ==
    /\ pc = "while_attempts"
    /\ attempts >= MAX_ATTEMPTS
    /\ pc' = "for_nums"
    /\ range_idx' = 0
    /\ attempts' = 0
    /\ UNCHANGED <<historical_results, call, result, predict_analysis, predictions,
                   ranges_to_pick, candidate_numbers, nums_left>>

\* lines 204-206: one iteration of `while len(candidate_numbers) < 5`; drawing a
\* value the set already holds leaves every variable as it was
TopUp ==
    /\ pc = "while_short"
    /\ Cardinality(candidate_numbers) < REGULAR_COUNT
    /\ \E new_num \in randint(0, max_number) :
           candidate_numbers' = candidate_numbers \cup {new_num}
    /\ UNCHANGED <<historical_results, call, result, pc, predict_analysis, predictions,
                   ranges_to_pick, nums_left, range_idx, attempts>>

\* lines 209-217; line 173 assigns candidate_numbers before it is read again
AppendPrediction ==
    /\ pc = "while_short"
    /\ Cardinality(candidate_numbers) >= REGULAR_COUNT
    /\ \E numbers \in final_numbers(candidate_numbers),
          hot_number \in hot_numbers(most_common_hot) :
           predictions' = Append(predictions, [regular |-> numbers, hot |-> hot_number])
    /\ candidate_numbers' = {}
    /\ nums_left' = 0
    /\ pc' = "for_predictions"
    /\ UNCHANGED <<historical_results, call, result, predict_analysis,
                   ranges_to_pick, range_idx, attempts>>

PredictStep ==
    \/ StartCandidate
    \/ ReturnPredictions
    \/ PickRange
    \/ TryNumber
    \/ GiveUp
    \/ TopUp
    \/ AppendPrediction

\* the stores predict_next_result is explored on: what add_result leaves after
\* the first draws of a caller that gives the well-formed draws in rotation
RECURSIVE StoreAfter(_, _)
StoreAfter(hist, inputs) ==
    IF inputs = <<>> THEN hist
    ELSE StoreAfter(add_result(hist, inputs[1].regular, inputs[1].hot), Tail(inputs))

PredictInputs == SubSeq(ValidInputs, 4, 7)

Rotation(first) ==
    [k \in 1..MaxStore |-> PredictInputs[((first + k - 2) % Len(PredictInputs)) + 1]]

PredictStores ==
    {StoreAfter(<<>>, SubSeq(Rotation(first), 1, n)) :
        first \in DOMAIN PredictInputs, n \in 0..MaxStore}

PredictInit ==
    /\ historical_results \in PredictStores
    /\ call = Call("init", NoArgs)
    /\ result = NoResult
    /\ pc = "idle"
    /\ most_common_regular = <<>>
    /\ most_common_hot = <<>>
    /\ avg_range = <<>>
    /\ ranges_to_pick = <<>>
    /\ predictions = <<>>
    /\ candidate_numbers = {}
    /\ nums_left = 0
    /\ range_idx = 0
    /\ attempts = 0

PredictNext ==
    \/ AnalyzeFrequency
    \/ AnalyzePatterns
    \/ ChaosTheoryAnalysis
    \/ EnigmaInspiredAnalysis
    \/ PredictInsufficient
    \/ PredictBegin
    \/ PredictStep

\* the analyses and the generator on a store that no longer changes
PredictSpec == PredictInit /\ [][PredictNext]_vars

-----------------------------------------------------------------------------
(* Fairness: the interpreter runs a started call on, and in the loop of      *)
(* lines 204-206 a value the set does not hold yet is eventually drawn (a    *)
(* draw of a value it holds changes nothing, so <TopUp>_vars is such a draw) *)

LiveSpec == PredictSpec /\ WF_vars(PredictStep) /\ WF_vars(TopUp)

-----------------------------------------------------------------------------
(* Vocabulary of the properties *)

IsAscending(s) == \A i \in 1..(Len(s) - 1) : s[i] < s[i + 1]

InRegularRange(v) == 0 <= v /\ v <= 43
InHotRange(v) == 1 <= v /\ v <= 16

Size == Len(historical_results)

Occurrences(s, x) == Cardinality({i \in DOMAIN s : s[i] = x})

AnalysisOps ==
    {"analyze_frequency", "analyze_patterns", "chaos_theory_analysis",
     "enigma_inspired_analysis", "predict_next_result"}

DeterministicOps == AnalysisOps \ {"predict_next_result"}

Finished(op) == call.op = op /\ pc = "idle"

-----------------------------------------------------------------------------
\* C1: predict(n) on a store of at least 3 draws returns exactly n candidates,
\* each with exactly 5 regular values in [0,43] in strictly ascending order
\* (hence pairwise distinct) and one hot value in [1,16].
WellFormedCandidate(c) ==
    /\ Len(c.regular) = 5
    /\ IsAscending(c.regular)
    /\ \A i \in DOMAIN c.regular : InRegularRange(c.regular[i])
    /\ InHotRange(c.hot)

C1_PredictReturnsWellFormedCandidates ==
    (Finished("predict_next_result") /\ Size >= 3) =>
        /\ result.kind = "list"
        /\ Len(result.value) = call.args
        /\ \A k \in DOMAIN result.value : WellFormedCandidate(result.value[k])

\* a returned candidate that holds max_number, the clamped end of the last range
C1_Witness ==
    /\ Finished("predict_next_result")
    /\ result.kind = "list"
    /\ Len(result.value) >= 1
    /\ result.value[1].regular[5] = 43

-----------------------------------------------------------------------------
\* C2: an append whose regular list has a length other than 5, a value outside
\* [0,43] or a duplicate, or whose hot value is outside [1,16], raises the
\* validation error and leaves the store as it was; a well-formed append, also
\* one that follows a rejected one, succeeds and makes the store one longer.
Malformed(in) ==
    \/ Len(in.regular) # 5
    \/ \E i \in DOMAIN in.regular : ~InRegularRange(in.regular[i])
    \/ \E i, j \in DOMAIN in.regular : i # j /\ in.regular[i] = in.regular[j]
    \/ ~InHotRange(in.hot)

C2_RejectedAppendLeavesStore ==
    [][call'.op = "add_result" =>
          IF Malformed(call'.args)
          THEN /\ result'.kind = "ValueError"
               /\ historical_results' = historical_results
          ELSE /\ result'.kind = "None"
               /\ Len(historical_results') = Len(historical_results) + 1
               /\ SubSeq(historical_results', 1, Len(historical_results))
                      = historical_results]_vars

\* a rejected append on a store that already holds draws
C2_Witness ==
    /\ call.op = "add_result"
    /\ result.kind = "ValueError"
    /\ Size >= 1

-----------------------------------------------------------------------------
\* C3: every stored draw's regular list is sorted ascending, and the regular
\* counts analyze_frequency returns sum to 5 times the store size.
C3_SortedAndCountsSum ==
    /\ \A k \in DOMAIN historical_results : IsAscending(historical_results[k].regular)
    /\ Finished("analyze_frequency") => sum(result.value.regular.cnt) = 5 * Size

\* the frequency of a store whose draws were given out of order
C3_Witness ==
    /\ Finished("analyze_frequency")
    /\ Size >= 2
    /\ historical_results[Size].regular = <<9, 10, 11, 12, 13>>

-----------------------------------------------------------------------------
\* C4: analyze_patterns reports insufficient data (its message, no structure)
\* exactly on fewer than 2 draws, chaos_theory_analysis and
\* predict_next_result exactly on fewer than 3; from those sizes on each
\* returns its structure.
C4_DataFloors ==
    /\ Finished("analyze_patterns") =>
           result.kind = (IF Size < 2 THEN "str" ELSE "dict")
    /\ Finished("chaos_theory_analysis") =>
           result.kind = (IF Size < 3 THEN "str" ELSE "dict")
    /\ Finished("predict_next_result") =>
           result.kind = (IF Size < 3 THEN "str" ELSE "list")

\* analyze_patterns at exactly its floor
C4_Witness ==
    /\ Finished("analyze_patterns")
    /\ Size = 2
    /\ result.kind = "dict"

-----------------------------------------------------------------------------
\* C5: on a non-empty store enigma_inspired_analysis returns the table
\* i |-> (i + S) mod 44 over 0..43, S the sum of the regulars of the last
\* draw, and one 5-tuple per stored draw, in store order, whose k-th element is
\* the table's image of the draw's k-th regular; on an empty store it reports
\* that there is no data.
LastSum ==
    LET r == historical_results[Size].regular
    IN  r[1] + r[2] + r[3] + r[4] + r[5]

C5_SubstitutionTable ==
    Finished("enigma_inspired_analysis") =>
        IF Size = 0 THEN result.kind = "str"
        ELSE /\ result.kind = "dict"
             /\ DOMAIN result.value.transformation = 0..43
             /\ \A i \in 0..43 : result.value.transformation[i] = (i + LastSum) % 44
             /\ Len(result.value.transformed_results) = Size
             /\ \A k \in 1..Size :
                    /\ Len(result.value.transformed_results[k]) = 5
                    /\ \A j \in 1..5 :
                           result.value.transformed_results[k][j] =
                               (historical_results[k].regular[j] + LastSum) % 44

\* a table whose shift differs from the one the first draw would give
C5_Witness ==
    /\ Finished("enigma_inspired_analysis")
    /\ Size >= 2
    /\ sum(historical_results[1].regular) % 44 # LastSum % 44

-----------------------------------------------------------------------------
\* C6: no analysis changes the store, whether it returns a structure or
\* reports missing data, and a frequency, patterns, chaos or substitution call
\* repeated with nothing in between returns what the first returned.
C6_AnalysesLeaveStore ==
    [][/\ call'.op \in AnalysisOps => historical_results' = historical_results
       /\ (call'.op = call.op /\ call.op \in DeterministicOps) => result' = result]_vars

\* a substitution analysis has returned its structure
C6_Witness ==
    /\ Finished("enigma_inspired_analysis")
    /\ result.kind = "dict"
    /\ Size >= 3

-----------------------------------------------------------------------------
\* C7: a started predict call finishes with its list: attempts never passes
\* 10, and the loop that tops the set up to 5 is left, given that a value the
\* set does not hold is eventually drawn.
C7_PredictTerminates ==
    /\ [](attempts <= 10)
    /\ (pc # "idle") ~> (Finished("predict_next_result") /\ result.kind = "list")

\* the top-up loop entered with the set short, after a slot was given up
C7_Witness ==
    /\ pc = "while_short"
    /\ Cardinality(candidate_numbers) < 5

-----------------------------------------------------------------------------
\* C8 (as claimed): where the range loop picks from it (line 191),
\* ranges_to_pick holds range i exactly
\* max(1, round(mean_i * 2)) times, mean_i the mean over the stored draws of
\* the number of regulars n with min(3, n // 11) = i.
RangeTotal(i) ==
    Cardinality({<<k, j>> \in (1..Size) \X (1..5) :
        (IF historical_results[k].regular[j] \div 11 < 3
         THEN historical_results[k].regular[j] \div 11 ELSE 3) = i})

\* round(num / den), halves to even, for num >= 0 and den > 0
RoundHalfEven(num, den) ==
    LET q == num \div den
        twice == 2 * (num % den)
    IN  IF twice < den THEN q
        ELSE IF twice > den THEN q + 1
        ELSE IF q % 2 = 0 THEN q ELSE q + 1

AtLeastOne(n) == IF n < 1 THEN 1 ELSE n

C8_PoolRounded ==
    (pc = "for_nums" /\ ranges_to_pick # <<>>) =>
        \A i \in 0..3 :
            Occurrences(ranges_to_pick, i) =
                AtLeastOne(RoundHalfEven(2 * RangeTotal(i), Size))

\* C8 (amended): where the range loop picks from it, ranges_to_pick holds
\* range i exactly
\* max(1, floor(mean_i * 2)) times: the product is truncated, not rounded.
C8_PoolTruncated ==
    (pc = "for_nums" /\ ranges_to_pick # <<>>) =>
        \A i \in 0..3 :
            Occurrences(ranges_to_pick, i) = AtLeastOne((2 * RangeTotal(i)) \div Size)

\* a pool built where truncating and rounding differ
C8_Witness ==
    /\ pc = "for_nums"
    /\ ranges_to_pick # <<>>
    /\ \E i \in 0..3 :
           AtLeastOne((2 * RangeTotal(i)) \div Size) #
               AtLeastOne(RoundHalfEven(2 * RangeTotal(i), Size))

-----------------------------------------------------------------------------
\* C9: the most-frequent-N selections predict takes from the counters of
\* analyze_frequency (lines 154-155)
TopRegular == most_common(result.value.regular, TOP_REGULAR)
TopHot == most_common(result.value.hot, TOP_HOT)

\* the regulars, and the hot values, in the order the counters meet them
RegularStream ==
    [p \in 1..(5 * Size) |->
        historical_results[((p - 1) \div 5) + 1].regular[((p - 1) % 5) + 1]]
HotStream == [k \in 1..Size |-> historical_results[k].hot]

FirstSeen(stream, v) == CHOOSE i \in DOMAIN stream :
    stream[i] = v /\ \A j \in 1..(i - 1) : stream[j] # v

ByDecreasingCount(top, stream) ==
    \A p, q \in DOMAIN top :
        p < q => Occurrences(stream, top[p]) >= Occurrences(stream, top[q])

\* (as claimed) equal counts: the smaller value is ranked first, and is not
\* left out while the larger one is in
TiesAscending(top, stream) ==
    /\ \A p, q \in DOMAIN top :
           (p < q /\ Occurrences(stream, top[p]) = Occurrences(stream, top[q]))
               => top[p] < top[q]
    /\ \A v \in Range(stream), w \in Range(top) :
           (v < w /\ Occurrences(stream, v) = Occurrences(stream, w))
               => v \in Range(top)

C9_TiesByAscendingValue ==
    Finished("analyze_frequency") =>
        /\ TiesAscending(TopRegular, RegularStream)
        /\ TiesAscending(TopHot, HotStream)

\* C9 (amended): the selections are in decreasing count; of two values with
\* equal counts the one the counter met first (store order, and ascending
\* within a draw's regulars) is ranked first and is not left out while the
\* other is in.  That order is not the ascending numeric one.
TiesFirstSeen(top, stream) ==
    /\ \A p, q \in DOMAIN top :
           (p < q /\ Occurrences(stream, top[p]) = Occurrences(stream, top[q]))
               => FirstSeen(stream, top[p]) < FirstSeen(stream, top[q])
    /\ \A v \in Range(stream), w \in Range(top) :
           (/\ FirstSeen(stream, v) < FirstSeen(stream, w)
            /\ Occurrences(stream, v) = Occurrences(stream, w))
               => v \in Range(top)

C9_TiesByFirstEncounter ==
    Finished("analyze_frequency") =>
        /\ ByDecreasingCount(TopRegular, RegularStream)
        /\ ByDecreasingCount(TopHot, HotStream)
        /\ TiesFirstSeen(TopRegular, RegularStream)
        /\ TiesFirstSeen(TopHot, HotStream)

\* a selection of 10 out of more values, with a larger value ranked before a
\* smaller one of equal count
C9_Witness ==
    /\ Finished("analyze_frequency")
    /\ Size >= 3
    /\ Len(result.value.regular.keys) > 10
    /\ \E p, q \in DOMAIN TopRegular :
           /\ p < q
           /\ TopRegular[p] > TopRegular[q]
           /\ Occurrences(RegularStream, TopRegular[p])
                  = Occurrences(RegularStream, TopRegular[q])

-----------------------------------------------------------------------------
\* C10: on a store of at least 3 draws the estimate is not negative, and
\* is_chaotic is true exactly when two consecutive elements of the flattened
\* stream (each draw's 5 ascending regulars, then its hot value, in store
\* order) differ by 2 or more, false exactly when every difference is 0 or 1.
FlatStream ==
    [p \in 1..(6 * Size) |->
        LET draw == historical_results[((p - 1) \div 6) + 1]
            at   == ((p - 1) % 6) + 1
        IN  IF at <= 5 THEN draw.regular[at] ELSE draw.hot]

Gap(p) ==
    IF FlatStream[p + 1] >= FlatStream[p]
    THEN FlatStream[p + 1] - FlatStream[p]
    ELSE FlatStream[p] - FlatStream[p + 1]

C10_ChaoticExactlyOnWideGap ==
    (Finished("chaos_theory_analysis") /\ Size >= 3) =>
        /\ result.kind = "dict"
        /\ result.value.lyapunov_estimate.num >= 0
        /\ result.value.lyapunov_estimate.den > 0
        /\ result.value.is_chaotic <=> (\E p \in 1..(6 * Size - 1) : Gap(p) >= 2)

\* a store whose stream only steps by 0 and 1
C10_Witness ==
    /\ Finished("chaos_theory_analysis")
    /\ result.kind = "dict"
    /\ ~result.value.is_chaotic

====
